---- MODULE Spec2Model ----
(***************************************************************************)
(* Model of package resilience (v1/resilience.go): an http.Handler that    *)
(* asks a caller-supplied ShouldFail function whether to fail a request,   *)
(* once before dispatching to the wrapped handler and once when the        *)
(* wrapped handler first commits its response header.                      *)
(*                                                                         *)
(* One request is modelled from the call of Handler.ServeHTTP to its end.  *)
(* The real http.ResponseWriter, the ShouldFail function and the wrapped   *)
(* handler are interface values supplied by the caller: the model records  *)
(* every call made to them, in order, in trace.  ShouldFail may return any *)
(* value of Rets at each call; the wrapped handler may call WriteHeader    *)
(* and Write on the writer it is given in any order, return, or panic.     *)
(***************************************************************************)
EXTENDS Integers, Sequences, FiniteSets, TLC

\* Largest number of calls the wrapped handler makes on its ResponseWriter.
MaxOps == 3

\* http.StatusOK.
StatusOK == 200

\* Values the ShouldFail function returns: 0, valid failure codes and the
\* values around the accepted range.
Rets == {-5, 0, 1, 200, 399, 400, 500, 599, 600}

\* Status codes the wrapped handler passes to WriteHeader.
Codes == {0, 201, 202}

\* Byte slices the wrapped handler passes to Write.
Datas == {<<>>, <<104>>, <<104, 105>>}

VARIABLES
    pc,        \* "start": ServeHTTP not entered; "handler": inside
               \* h.Handler.ServeHTTP; "done": ServeHTTP returned;
               \* "panic": panic("unexpected status code"); "handlerPanic":
               \* the wrapped handler panicked
    called,    \* h.Handler.ServeHTTP was invoked
    status,    \* responseWriter.status
    panicVal,  \* the value carried by panic("unexpected status code %d")
    trace      \* calls made so far, in order

vars == <<pc, called, status, panicVal, trace>>

\* One recorded call: its kind, its integer argument or result, its bytes.
Ev(kind, n, d) == [ev |-> kind, n |-> n, d |-> d]

\* h.ShouldFail(r, false) returned s.
EvShouldFailEarly(s) == Ev("ShouldFail(false)", s, <<>>)
\* r.shouldFail(r.req, true) returned s.
EvShouldFailLate(s) == Ev("ShouldFail(true)", s, <<>>)
\* h.Handler.ServeHTTP(&responseWriter{...}, r) was entered.
EvHandler == Ev("Handler.ServeHTTP", 0, <<>>)
\* WriteHeader(code) on the real http.ResponseWriter.
EvSinkWriteHeader(code) == Ev("sink.WriteHeader", code, <<>>)
\* Write(data) on the real http.ResponseWriter.
EvSinkWrite(data) == Ev("sink.Write", 0, data)
\* The wrapped handler called WriteHeader(code) on the responseWriter.
EvCallWriteHeader(code) == Ev("WriteHeader", code, <<>>)
\* The wrapped handler called Write(data) on the responseWriter.
EvCallWrite(data) == Ev("Write", 0, data)

Init ==
    /\ pc = "start"
    /\ called = FALSE
    /\ status = 0
    /\ panicVal = 0
    /\ trace = <<>>

----------------------------------------------------------------------------
\* Handler.ServeHTTP

EarlyInvalid_OffByOne(s) == s < 400 \/ s > 600

\* if s < 400 || s >= 600
EarlyInvalid(s) == s < 400 \/ s >= 600

ServeHTTP_NoReturn(s) ==
    /\ pc = "start"
    /\ IF s # 0 /\ EarlyInvalid(s)
       THEN /\ pc' = "panic"
            /\ panicVal' = s
            /\ trace' = Append(trace, EvShouldFailEarly(s))
            /\ UNCHANGED <<called, status>>
       ELSE /\ pc' = "handler"
            /\ called' = TRUE
            /\ status' = 0
            /\ trace' = Append(trace, EvShouldFailEarly(s))
                           \o (IF s # 0 THEN <<EvSinkWriteHeader(s)>> ELSE <<>>)
                           \o <<EvHandler>>
            /\ UNCHANGED panicVal

ServeHTTP_NoWriteHeader(s) ==
    /\ pc = "start"
    /\ IF s # 0
       THEN IF EarlyInvalid(s)
            THEN /\ pc' = "panic"
                 /\ panicVal' = s
                 /\ trace' = Append(trace, EvShouldFailEarly(s))
                 /\ UNCHANGED <<called, status>>
            ELSE /\ pc' = "done"
                 /\ trace' = Append(trace, EvShouldFailEarly(s))
                 /\ UNCHANGED <<called, status, panicVal>>
       ELSE /\ pc' = "handler"
            /\ called' = TRUE
            /\ status' = 0
            /\ trace' = Append(trace, EvShouldFailEarly(s)) \o <<EvHandler>>
            /\ UNCHANGED panicVal

\* ServeHTTP up to the point where the wrapped handler runs: the early
\* ShouldFail call returning s, then the panic, the forced status and return,
\* or the dispatch to the wrapped handler with a fresh responseWriter.
ServeHTTP(s) ==
    /\ pc = "start"
    /\ IF s # 0
       THEN IF EarlyInvalid(s)
            THEN /\ pc' = "panic"
                 /\ panicVal' = s
                 /\ trace' = Append(trace, EvShouldFailEarly(s))
                 /\ UNCHANGED <<called, status>>
            ELSE /\ pc' = "done"
                 /\ trace' = Append(trace, EvShouldFailEarly(s))
                                \o <<EvSinkWriteHeader(s)>>
                 /\ UNCHANGED <<called, status, panicVal>>
       ELSE /\ pc' = "handler"
            /\ called' = TRUE
            /\ status' = 0
            /\ trace' = Append(trace, EvShouldFailEarly(s)) \o <<EvHandler>>
            /\ UNCHANGED panicVal

----------------------------------------------------------------------------
\* responseWriter

HeaderWritten_Never(st) == FALSE

\* if r.status != 0 { return }
HeaderWritten(st) == st # 0

LateInvalid_And(s) == s < 400 /\ s >= 600

LateInvalid_Strict(s) == s <= 400 \/ s >= 600

\* if s < 400 || s >= 600
LateInvalid(s) == s < 400 \/ s >= 600

Resolve_KeepCode(code, s) == code

Resolve_Decision(code, s) == s

\* status = s when s != 0, else the caller's status
Resolve(code, s) == IF s # 0 THEN s ELSE code

\* The outcome of a responseWriter method: the writer's status, the calls
\* made, and whether it panicked and with which value.
Outcome(st, tr, panicked, val) ==
    [status |-> st, trace |-> tr, panicked |-> panicked, val |-> val]

\* responseWriter.WriteHeader(code) on a writer whose status is st, after the
\* calls tr: the set of its outcomes, one per value ShouldFail may return.
WriteHeader(st, tr, code) ==
    IF HeaderWritten(st)
    THEN {Outcome(st, tr, FALSE, 0)}
    ELSE {IF s # 0 /\ LateInvalid(s)
          THEN Outcome(st, Append(tr, EvShouldFailLate(s)), TRUE, s)
          ELSE Outcome(Resolve(code, s),
                       Append(tr, EvShouldFailLate(s))
                          \o <<EvSinkWriteHeader(Resolve(code, s))>>,
                       FALSE, 0)
          : s \in Rets}

ImplicitHeader_Never(st) == FALSE

\* if r.status == 0 { r.WriteHeader(http.StatusOK) }
ImplicitHeader(st) == st = 0

Write_BytesFirst(st, tr, data) ==
    IF ImplicitHeader(st)
    THEN WriteHeader(st, Append(tr, EvSinkWrite(data)), StatusOK)
    ELSE {Outcome(st, Append(tr, EvSinkWrite(data)), FALSE, 0)}

\* responseWriter.Write(data): the implicit WriteHeader(200) when no status
\* is recorded, then the write on the real ResponseWriter unless that
\* WriteHeader panicked.
Write(st, tr, data) ==
    LET hs == IF ImplicitHeader(st)
              THEN WriteHeader(st, tr, StatusOK)
              ELSE {Outcome(st, tr, FALSE, 0)}
    IN  {IF o.panicked
         THEN o
         ELSE Outcome(o.status, Append(o.trace, EvSinkWrite(data)), FALSE, 0)
         : o \in hs}

----------------------------------------------------------------------------
\* The wrapped handler, h.Handler

IsCall(e) == e.ev \in {"WriteHeader", "Write"}

\* The calls the wrapped handler made on its ResponseWriter.
Calls == SelectSeq(trace, IsCall)

\* The state after a responseWriter method ended with outcome o.
Apply(o) ==
    /\ status' = o.status
    /\ trace' = o.trace
    /\ pc' = IF o.panicked THEN "panic" ELSE "handler"
    /\ panicVal' = IF o.panicked THEN o.val ELSE panicVal
    /\ UNCHANGED called

\* The wrapped handler calls w.WriteHeader(code).
CallWriteHeader(code) ==
    /\ pc = "handler"
    /\ Len(Calls) < MaxOps
    /\ \E o \in WriteHeader(status, Append(trace, EvCallWriteHeader(code)), code) :
          Apply(o)

\* The wrapped handler calls w.Write(data).
CallWrite(data) ==
    /\ pc = "handler"
    /\ Len(Calls) < MaxOps
    /\ \E o \in Write(status, Append(trace, EvCallWrite(data)), data) :
          Apply(o)

\* The wrapped handler returns, and so does ServeHTTP.
HandlerReturn ==
    /\ pc = "handler"
    /\ pc' = "done"
    /\ UNCHANGED <<called, status, panicVal, trace>>

HandlerPanic_WritesStatus ==
    /\ pc = "handler"
    /\ pc' = "handlerPanic"
    /\ trace' = Append(trace, EvSinkWriteHeader(500))
    /\ UNCHANGED <<called, status, panicVal>>

\* The wrapped handler panics; ServeHTTP has no recover.
HandlerPanic ==
    /\ pc = "handler"
    /\ pc' = "handlerPanic"
    /\ UNCHANGED <<called, status, panicVal, trace>>

Next ==
    \/ \E s \in Rets : ServeHTTP(s)
    \/ \E code \in Codes : CallWriteHeader(code)
    \/ \E data \in Datas : CallWrite(data)
    \/ HandlerReturn
    \/ HandlerPanic

Spec == Init /\ [][Next]_vars

----------------------------------------------------------------------------
\* What the calls recorded in trace show

IsShouldFailEarly(e) == e.ev = "ShouldFail(false)"
IsShouldFailLate(e) == e.ev = "ShouldFail(true)"
IsSinkWriteHeader(e) == e.ev = "sink.WriteHeader"
IsSinkWrite(e) == e.ev = "sink.Write"
IsCallWriteHeader(e) == e.ev = "WriteHeader"
IsCallWrite(e) == e.ev = "Write"

\* The integer arguments or results, and the byte slices, of a run of calls.
Nums(seq) == [i \in 1..Len(seq) |-> seq[i].n]
Slices(seq) == [i \in 1..Len(seq) |-> seq[i].d]

\* Results of the ShouldFail calls with afterHeader false, and with true.
EarlyDecisions == Nums(SelectSeq(trace, IsShouldFailEarly))
LateDecisions == Nums(SelectSeq(trace, IsShouldFailLate))
\* Codes and byte slices the real ResponseWriter received.
SinkCodes == Nums(SelectSeq(trace, IsSinkWriteHeader))
SinkBody == Slices(SelectSeq(trace, IsSinkWrite))
\* Codes and byte slices the wrapped handler passed to its writer.
CallCodes == Nums(SelectSeq(trace, IsCallWriteHeader))
CallBody == Slices(SelectSeq(trace, IsCallWrite))

ValidFailure == 400..599

\* The early ShouldFail call returned d.
EarlyIs(d) == EarlyDecisions # <<>> /\ EarlyDecisions[1] = d
\* The first late ShouldFail call returned d.
LateIs(d) == LateDecisions # <<>> /\ LateDecisions[1] = d

\* The forced early status was written: the real WriteHeader follows the
\* early ShouldFail call directly.
ForcedWritten == Len(trace) >= 2 /\ IsSinkWriteHeader(trace[2])

----------------------------------------------------------------------------
\* C1 as stated: whenever the early decision is non-zero, the wrapped handler
\* is not invoked and the real writer got exactly that status and no bytes.
C1_Original ==
    \A d \in Rets \ {0} :
        EarlyIs(d) => /\ ~called
                      /\ SinkCodes = <<d>>
                      /\ SinkBody = <<>>

\* C1 (amended): whenever the early decision is a status in 400..599, the
\* wrapped handler is never invoked and the real writer receives exactly one
\* WriteHeader, with that status, and no Write.
C1_EarlyFailure ==
    \A d \in ValidFailure :
        EarlyIs(d) => /\ ~called
                      /\ SinkCodes = <<d>>
                      /\ SinkBody = <<>>
                      /\ pc = "done"

C1_Witness ==
    /\ pc = "done"
    /\ EarlyIs(500)
    /\ trace = <<EvShouldFailEarly(500), EvSinkWriteHeader(500)>>

\* C2: when the early decision is 0 and the late decision is a status in
\* 400..599, the wrapped handler was invoked, the only status the real writer
\* receives is the late decision, whatever code the handler passed, and the
\* real writer receives exactly the byte slices the handler wrote, in order.
C2_LateFailure ==
    \A d \in ValidFailure :
        (EarlyIs(0) /\ LateIs(d)) => /\ called
                                     /\ SinkCodes = <<d>>
                                     /\ SinkBody = CallBody

C2_Witness ==
    /\ EarlyIs(0)
    /\ LateIs(500)
    /\ CallCodes # <<>> /\ CallCodes[1] = 201
    /\ IsCallWriteHeader(trace[3])
    /\ SinkCodes = <<500>>
    /\ SinkBody = <<<<104, 105>>>>

\* The code of the wrapped handler's first WriteHeader call, or 200 when it
\* made none.
FirstCallCode == IF CallCodes # <<>> THEN CallCodes[1] ELSE StatusOK

\* ShouldFail was called with afterHeader true and returned 0 every time.
LateAllZero ==
    /\ LateDecisions # <<>>
    /\ \A i \in 1..Len(LateDecisions) : LateDecisions[i] = 0

\* C3 as stated: with both decisions 0 the status on the real writer is the
\* code of the handler's first WriteHeader call, or 200 if it made none, and
\* the body is what the handler wrote.
C3_Original ==
    (EarlyIs(0) /\ LateAllZero) => /\ SinkCodes # <<>>
                                 /\ SinkCodes[1] = FirstCallCode
                                 /\ SinkBody = CallBody

\* The code the wrapped handler's first call commits: its argument when the
\* call is WriteHeader, 200 when it is Write.
FirstCommitCode == IF IsCallWriteHeader(Calls[1]) THEN Calls[1].n ELSE StatusOK

\* C3 (amended): when the early decision and every late decision are 0, the
\* first status the real writer receives is the code of the handler's first
\* WriteHeader call when that call comes before all its Write calls, and 200
\* when the handler's first call is a Write; the real writer receives exactly
\* the byte slices the handler wrote, in order.
C3_PassThrough ==
    (EarlyIs(0) /\ LateAllZero) => /\ Calls # <<>>
                                 /\ SinkCodes # <<>>
                                 /\ SinkCodes[1] = FirstCommitCode
                                 /\ SinkBody = CallBody

C3_Witness ==
    /\ EarlyIs(0)
    /\ LateAllZero
    /\ IsCallWrite(Calls[1])
    /\ CallCodes = <<201>>
    /\ SinkCodes = <<StatusOK>>
    /\ SinkBody = <<<<104, 105>>>>

\* C4: once a status is recorded in the responseWriter, a WriteHeader call of
\* the wrapped handler, with any code, does nothing: no ShouldFail call, no
\* call on the real writer, no panic, and the recorded status is unchanged.
C4_FirstWriteWins ==
    [][(/\ status # 0
        /\ Len(trace') > Len(trace)
        /\ IsCallWriteHeader(trace'[Len(trace) + 1]))
       => /\ Len(trace') = Len(trace) + 1
          /\ status' = status
          /\ pc' = "handler"
          /\ panicVal' = panicVal]_vars

C4_Witness ==
    /\ EarlyIs(0)
    /\ LateDecisions = <<0>>
    /\ CallCodes = <<201, 202>>
    /\ Len(Calls) = 3
    /\ IsCallWrite(Calls[3])
    /\ status = 201
    /\ SinkCodes = <<201>>
    /\ SinkBody = <<<<104, 105>>>>

\* C5: when the early decision is neither 0 nor in 400..599, ServeHTTP
\* panics with that value, the wrapped handler is not invoked and the real
\* writer receives no call.
C5_EarlyPanic ==
    \A d \in Rets \ ({0} \cup ValidFailure) :
        EarlyIs(d) => /\ pc = "panic"
                      /\ panicVal = d
                      /\ ~called
                      /\ SinkCodes = <<>>
                      /\ SinkBody = <<>>

C5_Witness ==
    /\ pc = "panic"
    /\ panicVal = 600
    /\ trace = <<EvShouldFailEarly(600)>>

\* C6: when the early decision is 0 and a late decision is neither 0 nor in
\* 400..599, the wrapped handler was invoked and the call that asked for the
\* decision panics with that value: it is the last call recorded, so neither
\* a status nor the bytes of that call reach the real writer, and the
\* responseWriter records no status.
C6_LatePanic ==
    \A i \in 1..Len(trace) :
        (IsShouldFailLate(trace[i]) /\ trace[i].n \notin {0} \cup ValidFailure)
        => /\ EarlyIs(0)
           /\ called
           /\ i = Len(trace)
           /\ IsCall(trace[i - 1])
           /\ pc = "panic"
           /\ panicVal = trace[i].n
           /\ status = 0
           /\ (LateDecisions = <<trace[i].n>>
                  => SinkCodes = <<>> /\ SinkBody = <<>>)

C6_Witness ==
    /\ pc = "panic"
    /\ called
    /\ panicVal = 200
    /\ trace = <<EvShouldFailEarly(0), EvHandler, EvCallWrite(<<104, 105>>),
                 EvShouldFailLate(200)>>

\* C7 as stated: after the early part of ServeHTTP, exactly one of "forced
\* status written" and "wrapped handler invoked" has happened.
C7_Original ==
    pc # "start" => (ForcedWritten /\ ~called) \/ (~ForcedWritten /\ called)

\* C7 (amended): when the early decision is 0 or in 400..599, exactly one of
\* "forced status written" and "wrapped handler invoked" happens (the first
\* for a non-zero decision, the second for 0); when the early decision is any
\* other value ServeHTTP panics and neither happens.
C7_ExactlyOne ==
    pc # "start" =>
        /\ EarlyDecisions[1] \in ValidFailure => ForcedWritten /\ ~called
        /\ EarlyDecisions[1] = 0 => ~ForcedWritten /\ called
        /\ EarlyDecisions[1] \notin {0} \cup ValidFailure
              => ~ForcedWritten /\ ~called /\ pc = "panic"

C7_Witness ==
    /\ pc = "done"
    /\ EarlyIs(400)
    /\ ForcedWritten
    /\ ~called

\* C8 as stated: ShouldFail is called with afterHeader true at most once per
\* request, whatever calls the wrapped handler makes.
C8_Original == Len(LateDecisions) <= 1

\* C9 as stated: the real writer's WriteHeader is called at most once, and
\* the responseWriter goes from no status to a recorded status at most once.
C9_Original ==
    /\ Len(SinkCodes) <= 1
    /\ Cardinality({i \in 1..Len(SinkCodes) : SinkCodes[i] # 0}) <= 1

----------------------------------------------------------------------------
\* The step is a call of the wrapped handler to Write, or to WriteHeader, on
\* its writer: the call is the first thing the step records.
WriteCallStep ==
    Len(trace') > Len(trace) /\ IsCallWrite(trace'[Len(trace) + 1])
WriteHeaderCallStep ==
    Len(trace') > Len(trace) /\ IsCallWriteHeader(trace'[Len(trace) + 1])

\* What a Write(data) call records after itself when ShouldFail returns s and
\* the header goes through as for WriteHeader(200): the late decision, the
\* status on the real writer, then the bytes.
ImplicitCommitCalls(s, data) ==
    <<EvShouldFailLate(s),
      EvSinkWriteHeader(IF s # 0 THEN s ELSE StatusOK),
      EvSinkWrite(data)>>

\* C11 as stated: a Write on a writer with no recorded status asks ShouldFail
\* once, commits 200 or the non-zero decision on the real writer, records it,
\* and then delegates the bytes; a Write on a writer with a recorded status
\* only delegates the bytes.
C11_Original ==
    [][WriteCallStep =>
        LET call == trace'[Len(trace) + 1] IN
        IF status = 0
        THEN \E s \in Rets :
                /\ trace' = Append(trace, call) \o ImplicitCommitCalls(s, call.d)
                /\ status' = (IF s # 0 THEN s ELSE StatusOK)
                /\ pc' = "handler"
        ELSE /\ trace' = Append(trace, call) \o <<EvSinkWrite(call.d)>>
             /\ status' = status
             /\ pc' = "handler"]_vars

\* C11 (amended): a Write on a writer with no recorded status asks ShouldFail
\* exactly once; when the decision is 0 or in 400..599 it commits 200, or the
\* non-zero decision, on the real writer, records it, and only then delegates
\* the bytes, exactly as WriteHeader(200) followed by the write; when the
\* decision is any other value the call panics with it and delegates nothing.
\* A Write on a writer with a recorded status only delegates the bytes.
C11_ImplicitCommit ==
    [][WriteCallStep =>
        LET call == trace'[Len(trace) + 1] IN
        IF status = 0
        THEN \E s \in Rets :
                IF s \in {0} \cup ValidFailure
                THEN /\ trace' = Append(trace, call)
                                    \o ImplicitCommitCalls(s, call.d)
                     /\ status' = (IF s # 0 THEN s ELSE StatusOK)
                     /\ status' # 0
                     /\ pc' = "handler"
                ELSE /\ trace' = Append(trace, call) \o <<EvShouldFailLate(s)>>
                     /\ status' = 0
                     /\ pc' = "panic"
                     /\ panicVal' = s
        ELSE /\ trace' = Append(trace, call) \o <<EvSinkWrite(call.d)>>
             /\ status' = status
             /\ pc' = "handler"]_vars

C11_Witness ==
    /\ status = StatusOK
    /\ trace = <<EvShouldFailEarly(0), EvHandler,
                 EvCallWrite(<<104, 105>>), EvShouldFailLate(0),
                 EvSinkWriteHeader(StatusOK), EvSinkWrite(<<104, 105>>),
                 EvCallWrite(<<104>>), EvSinkWrite(<<104>>)>>

\* C12: once ServeHTTP has run, ShouldFail was called exactly once with
\* afterHeader false; that call is the first call recorded, before the wrapped
\* handler is invoked and before anything reaches the real writer; every
\* later ShouldFail call has afterHeader true; and when the early decision is
\* non-zero there is no call with afterHeader true at all.
C12_EarlyDecisionOnce ==
    /\ pc = "start" => trace = <<>>
    /\ pc # "start" =>
          /\ Len(EarlyDecisions) = 1
          /\ IsShouldFailEarly(trace[1])
          /\ \A i \in 2..Len(trace) :
                trace[i].ev \in {"ShouldFail(false)", "ShouldFail(true)"}
                   => IsShouldFailLate(trace[i])
          /\ EarlyDecisions[1] # 0 => LateDecisions = <<>>

C12_Witness ==
    /\ pc = "done"
    /\ EarlyDecisions = <<0>>
    /\ LateDecisions = <<500>>
    /\ IsShouldFailEarly(trace[1])
    /\ Len(Calls) = 2

\* C13: a panic of the wrapped handler ends ServeHTTP as it is: the step
\* makes no call on the real writer or on ShouldFail and changes no status,
\* and nothing happens in the request afterwards, so the status and bytes the
\* real writer received before the panic stay as they were.
C13_HandlerFaultPropagates ==
    [][/\ (pc' = "handlerPanic" /\ pc # "handlerPanic")
             => /\ pc = "handler"
                /\ trace' = trace
                /\ status' = status
                /\ panicVal' = panicVal
                /\ called' = called
       /\ pc = "handlerPanic" => UNCHANGED vars]_vars

C13_Witness ==
    /\ pc = "handlerPanic"
    /\ called
    /\ SinkCodes = <<201>>
    /\ SinkBody = <<<<104>>>>

----------------------------------------------------------------------------
\* Several requests served concurrently by one Handler.  Each request runs
\* ServeHTTP on its own goroutine with its own http.ResponseWriter; the steps
\* of different requests interleave.  In this specification every variable
\* is a function: pc, called, panicVal and trace of a request, status of a
\* responseWriter.

\* Number of concurrent requests.
NumReqs == 2

\* Largest number of calls each wrapped handler makes on its ResponseWriter.
MaxConcOps == 1

Reqs == 1..NumReqs

\* Values ShouldFail returns, codes and bytes the wrapped handlers pass, in
\* the concurrent runs.
ConcRets == {0, 200, 500}
ConcCodes == {201}
ConcDatas == {<<104>>}

Guard_Shared(r) == 1

\* &responseWriter{w, r, h.ShouldFail, 0}: the responseWriter that serves
\* request r, a new one at each call of ServeHTTP.
Guard(r) == r

Guards == {Guard(r) : r \in Reqs}

InitConc ==
    /\ pc = [r \in Reqs |-> "start"]
    /\ called = [r \in Reqs |-> FALSE]
    /\ status = [g \in Guards |-> 0]
    /\ panicVal = [r \in Reqs |-> 0]
    /\ trace = [r \in Reqs |-> <<>>]

\* ServeHTTP for request r, with the early decision s.
ConcServeHTTP(r, s) ==
    /\ pc[r] = "start"
    /\ IF s # 0
       THEN IF EarlyInvalid(s)
            THEN /\ pc' = [pc EXCEPT ![r] = "panic"]
                 /\ panicVal' = [panicVal EXCEPT ![r] = s]
                 /\ trace' = [trace EXCEPT ![r] = Append(@, EvShouldFailEarly(s))]
                 /\ UNCHANGED <<called, status>>
            ELSE /\ pc' = [pc EXCEPT ![r] = "done"]
                 /\ trace' = [trace EXCEPT ![r] = Append(@, EvShouldFailEarly(s))
                                                     \o <<EvSinkWriteHeader(s)>>]
                 /\ UNCHANGED <<called, status, panicVal>>
       ELSE /\ pc' = [pc EXCEPT ![r] = "handler"]
            /\ called' = [called EXCEPT ![r] = TRUE]
            /\ status' = [status EXCEPT ![Guard(r)] = 0]
            /\ trace' = [trace EXCEPT ![r] = Append(@, EvShouldFailEarly(s))
                                                \o <<EvHandler>>]
            /\ UNCHANGED panicVal

\* The outcomes in which every late decision is one of ConcRets.
WithConcRets(outcomes) ==
    {o \in outcomes :
        \A i \in 1..Len(o.trace) :
            IsShouldFailLate(o.trace[i]) => o.trace[i].n \in ConcRets}

\* The state after a responseWriter method of request r ended with outcome o.
ConcApply(r, o) ==
    /\ status' = [status EXCEPT ![Guard(r)] = o.status]
    /\ trace' = [trace EXCEPT ![r] = o.trace]
    /\ pc' = [pc EXCEPT ![r] = IF o.panicked THEN "panic" ELSE "handler"]
    /\ panicVal' = [panicVal EXCEPT ![r] = IF o.panicked THEN o.val ELSE @]
    /\ UNCHANGED called

\* The wrapped handler of request r calls w.WriteHeader(code).
ConcCallWriteHeader(r, code) ==
    /\ pc[r] = "handler"
    /\ Len(SelectSeq(trace[r], IsCall)) < MaxConcOps
    /\ \E o \in WithConcRets(WriteHeader(status[Guard(r)],
                                Append(trace[r], EvCallWriteHeader(code)), code)) :
          ConcApply(r, o)

\* The wrapped handler of request r calls w.Write(data).
ConcCallWrite(r, data) ==
    /\ pc[r] = "handler"
    /\ Len(SelectSeq(trace[r], IsCall)) < MaxConcOps
    /\ \E o \in WithConcRets(Write(status[Guard(r)],
                                Append(trace[r], EvCallWrite(data)), data)) :
          ConcApply(r, o)

\* The wrapped handler of request r returns, and so does its ServeHTTP.
ConcHandlerReturn(r) ==
    /\ pc[r] = "handler"
    /\ pc' = [pc EXCEPT ![r] = "done"]
    /\ UNCHANGED <<called, status, panicVal, trace>>

\* The wrapped handler of request r panics.
ConcHandlerPanic(r) ==
    /\ pc[r] = "handler"
    /\ pc' = [pc EXCEPT ![r] = "handlerPanic"]
    /\ UNCHANGED <<called, status, panicVal, trace>>

NextConc ==
    \/ \E r \in Reqs, s \in ConcRets : ConcServeHTTP(r, s)
    \/ \E r \in Reqs, code \in ConcCodes : ConcCallWriteHeader(r, code)
    \/ \E r \in Reqs, data \in ConcDatas : ConcCallWrite(r, data)
    \/ \E r \in Reqs : ConcHandlerReturn(r)
    \/ \E r \in Reqs : ConcHandlerPanic(r)

SpecConc == InitConc /\ [][NextConc]_vars

\* What request q shows: its position, its calls, and the status of its
\* responseWriter.
RequestState(q) ==
    [pc |-> pc[q], called |-> called[q], panicVal |-> panicVal[q],
     trace |-> trace[q], status |-> status[Guard(q)]]

\* The request handled alone: the outcomes of the first k of the calls its
\* wrapped handler made, on a responseWriter no other request touches, in
\* which ShouldFail returned what the calls tr record.
RECURSIVE AloneRuns(_, _, _)
AloneRuns(tr, calls, k) ==
    IF k = 0
    THEN {Outcome(0, <<EvShouldFailEarly(0), EvHandler>>, FALSE, 0)}
    ELSE LET runs ==
               UNION {IF o.panicked
                      THEN {}
                      ELSE IF IsCallWriteHeader(calls[k])
                           THEN WriteHeader(o.status, Append(o.trace, calls[k]),
                                            calls[k].n)
                           ELSE Write(o.status, Append(o.trace, calls[k]),
                                      calls[k].d)
                      : o \in AloneRuns(tr, calls, k - 1)}
         IN  {o \in runs : /\ Len(o.trace) <= Len(tr)
                           /\ o.trace = SubSeq(tr, 1, Len(o.trace))}

\* Request q is in a state it reaches when handled alone with the same
\* decisions and the same calls of its wrapped handler.
AsAlone(q) ==
    IF called[q]
    THEN LET calls == SelectSeq(trace[q], IsCall) IN
         \E o \in AloneRuns(trace[q], calls, Len(calls)) :
            /\ o.trace = trace[q]
            /\ o.status = status[Guard(q)]
            /\ o.panicked = (pc[q] = "panic")
            /\ o.panicked => o.val = panicVal[q]
    ELSE /\ status[Guard(q)] = 0
         /\ \/ trace[q] = <<>> /\ pc[q] = "start"
            \/ \E s \in ConcRets :
                  \/ /\ s # 0 /\ s \notin ValidFailure
                     /\ trace[q] = <<EvShouldFailEarly(s)>>
                     /\ pc[q] = "panic" /\ panicVal[q] = s
                  \/ /\ s \in ValidFailure
                     /\ trace[q] = <<EvShouldFailEarly(s), EvSinkWriteHeader(s)>>
                     /\ pc[q] = "done"

\* C14: with several requests interleaved, every step changes the state of
\* one request only (position, recorded status of its responseWriter, what
\* its real writer received), and leaves that request in a state it reaches
\* when handled alone with the same decisions and handler calls.
C14_RequestsIsolated ==
    [][\E r \in Reqs :
          /\ \A q \in Reqs \ {r} : RequestState(q)' = RequestState(q)
          /\ AsAlone(r)']_vars

C14_Witness ==
    /\ pc[1] = "handler" /\ pc[2] = "handler"
    /\ status[Guard(1)] = 201
    /\ status[Guard(2)] = 500
    /\ trace[1] = <<EvShouldFailEarly(0), EvHandler,
                    EvCallWriteHeader(201), EvShouldFailLate(0),
                    EvSinkWriteHeader(201)>>
    /\ trace[2] = <<EvShouldFailEarly(0), EvHandler,
                    EvCallWrite(<<104>>), EvShouldFailLate(500),
                    EvSinkWriteHeader(500), EvSinkWrite(<<104>>)>>

----------------------------------------------------------------------------
IsShouldFail(e) == IsShouldFailEarly(e) \/ IsShouldFailLate(e)

\* C15: at both calls of ShouldFail a non-zero decision d is accepted exactly
\* when 400 <= d <= 599: an accepted decision is the code of the WriteHeader
\* on the real writer that follows the call directly; any other non-zero
\* decision is the last call recorded and the request panics with it.
C15_SameValidation ==
    \A i \in 1..Len(trace) :
        (IsShouldFail(trace[i]) /\ trace[i].n # 0) =>
            IF 400 <= trace[i].n /\ trace[i].n <= 599
            THEN /\ i < Len(trace)
                 /\ trace[i + 1] = EvSinkWriteHeader(trace[i].n)
                 /\ pc # "panic"
            ELSE /\ i = Len(trace)
                 /\ pc = "panic"
                 /\ panicVal = trace[i].n

C15_Witness ==
    /\ EarlyIs(0)
    /\ LateDecisions = <<400>>
    /\ SinkCodes = <<400>>
    /\ status = 400
    /\ pc = "handler"

\* C16 as stated: for a request dispatched to the wrapped handler, the
\* responseWriter has a recorded status exactly when the real writer's
\* WriteHeader was called, and the recorded status is the code delegated.
C16_Original ==
    called => /\ (status # 0) <=> (SinkCodes # <<>>)
              /\ SinkCodes # <<>> => status = SinkCodes[Len(SinkCodes)]

\* C17: for a request dispatched to the wrapped handler, every WriteHeader
\* on the real writer comes directly after a ShouldFail call with afterHeader
\* true, every Write on the real writer comes after a WriteHeader on it, and
\* the real writer has received bytes only if the responseWriter records a
\* status.
C17_EventOrder ==
    called =>
        /\ \A i \in 1..Len(trace) :
              /\ IsSinkWriteHeader(trace[i])
                    => i > 1 /\ IsShouldFailLate(trace[i - 1])
              /\ IsSinkWrite(trace[i])
                    => \E j \in 1..(i - 1) :
                          /\ IsSinkWriteHeader(trace[j])
                          /\ \E k \in 1..(j - 1) : IsShouldFailLate(trace[k])
        /\ SinkBody # <<>> => status # 0

C17_Witness ==
    /\ status = 500
    /\ trace = <<EvShouldFailEarly(0), EvHandler,
                 EvCallWrite(<<104>>), EvShouldFailLate(500),
                 EvSinkWriteHeader(500), EvSinkWrite(<<104>>)>>

====
